---------------------------- MODULE Spec2Model ----------------------------
(***************************************************************************)
(* Model of pkg/beam/graph/userfn/userfn.go: the classification of a user  *)
(* function's signature into a UserFn (New) and the read-only queries over *)
(* a UserFn (Context, Type, EventTime, Error, OutEventTime, Params,        *)
(* Returns, String, SubParams, SubReturns).                                *)
(*                                                                         *)
(* A reflected type is a record [k, in, out]: k is the type's name for a   *)
(* nominal type, "ptr" for a pointer (in = <<pointee>>) and "func" for a   *)
(* function type (in = parameter types, out = result types).  Go indices   *)
(* are 0-based and are kept 0-based in every result; a TLA+ sequence holds *)
(* the element of Go index i at position i + 1.                            *)
(***************************************************************************)
EXTENDS Integers, Sequences, FiniteSets

VARIABLES
    dofn,     \* the value handed to New: [kind, name, in, out]
    oracle,   \* the canonical types typex's oracle accepts as element types
    pc,       \* "start" before New has run, "done" after
    u,        \* the *UserFn New returned (NilFn: nil)
    err,      \* the error New returned (NilErr: nil)
    res       \* the last query and its result: [op, args, val]

vars == <<dofn, oracle, pc, u, err, res>>

---------------------------------------------------------------------------
(* Bounds of the model. *)

\* Largest number of parameters plus results of a checked function.
MaxSlots == 3
\* Largest number of indices handed to SubParams / SubReturns.
MaxIdx == 2
\* Largest number of parameters of a callback type in SpecShape.
MaxShapeIn == 3

---------------------------------------------------------------------------
(* Kinds: userfn.go lines 18-53 and 86-91. *)

FnIllegal == 0
FnContext == 1
FnEventTime == 2
FnValue == 4
FnIter == 8
FnReIter == 16
FnEmit == 32
FnType == 64

RetIllegal == 0
RetEventTime == 1
RetValue == 2
RetError == 4

\* a & b on naturals.
RECURSIVE BitAnd(_, _)
BitAnd(a, b) ==
    IF a = 0 \/ b = 0 THEN 0
    ELSE (a % 2) * (b % 2) + 2 * BitAnd(a \div 2, b \div 2)

\* FnParamKind.String
FnParamKindString(k) ==
    CASE k = FnContext -> "Context"
      [] k = FnEventTime -> "EventTime"
      [] k = FnValue -> "Value"
      [] k = FnIter -> "Iter"
      [] k = FnReIter -> "ReIter"
      [] k = FnEmit -> "Emit"
      [] k = FnType -> "Type"
      [] OTHER -> "0"

\* ReturnKind.String
ReturnKindString(k) ==
    CASE k = RetError -> "Error"
      [] k = RetEventTime -> "EventTime"
      [] k = RetValue -> "Value"
      [] OTHER -> "0"

---------------------------------------------------------------------------
(* Reflected types. *)

Named(n) == [k |-> n, in |-> <<>>, out |-> <<>>]
Ptr(t) == [k |-> "ptr", in |-> <<t>>, out |-> <<>>]
Func(in, out) == [k |-> "func", in |-> in, out |-> out]

\* The canonical type handles New compares with.
ContextT == Named("context.Context")
EventTimeType == Named("typex.EventTime")
TypeT == Named("reflect.Type")
ErrorT == Named("error")
BoolT == Named("bool")

\* Other types of the model's universe.
IntT == Named("int")
SliceT == Named("[]int")
UniversalT == Named("typex.T")
ChanT == Named("chan int")

\* The canonical types whose oracle answer is left open.
Canonical == {ContextT, EventTimeType, TypeT, ErrorT}

SeqsUpTo(S, n) == UNION {[1..m -> S] : m \in 0..n}

---------------------------------------------------------------------------
(* The type oracle (package typex) and the callback shapes (IsEmit,        *)
(* IsIter, IsReIter of package userfn).  A function, pointer or channel    *)
(* type is never an element type.                                          *)

IsContainer(t) == t = SliceT
IsConcrete(t) == t \in {IntT, BoolT} \/ t \in oracle
IsUniversal(t) == t = UniversalT

IsElem(t) == IsContainer(t) \/ IsConcrete(t) \/ IsUniversal(t)

IsEmit(t) ==
    /\ t.k = "func"
    /\ Len(t.out) = 0
    /\ \/ /\ Len(t.in) = 1
          /\ IsElem(t.in[1])
       \/ /\ Len(t.in) = 2
          /\ \/ IsElem(t.in[1]) /\ IsElem(t.in[2])
             \/ t.in[1] = EventTimeType /\ IsElem(t.in[2])
       \/ /\ Len(t.in) = 3
          /\ t.in[1] = EventTimeType
          /\ IsElem(t.in[2])
          /\ IsElem(t.in[3])

IsIter(t) ==
    /\ t.k = "func"
    /\ Len(t.in) \in {1, 2}
    /\ \A i \in 1..Len(t.in) : t.in[i].k = "ptr" /\ IsElem(t.in[i].in[1])
    /\ t.out = <<BoolT>>

IsReIter(t) ==
    /\ t.k = "func"
    /\ Len(t.in) = 0
    /\ Len(t.out) = 1
    /\ IsIter(t.out[1])

---------------------------------------------------------------------------
(* New. *)

NilFn == [nil |-> TRUE]
NilErr == [nil |-> TRUE]

\* fmt.Errorf(format, args...): the format and the operands it renders.
Errorf(format, args) == [format |-> format, args |-> args]
StringArg(s) == [tag |-> "string", s |-> s]
TypeArg(t) == [tag |-> "type", t |-> t]
KindArg(k) == [tag |-> "kind", kind |-> k]

\* ParamKindOf with the element-type case moved to the top of the switch.
ParamKindOfValueFirst(t) ==
    IF IsContainer(t) \/ IsConcrete(t) \/ IsUniversal(t) THEN FnValue
    ELSE IF t = ContextT THEN FnContext
    ELSE IF t = EventTimeType THEN FnEventTime
    ELSE IF t = TypeT THEN FnType
    ELSE IF IsEmit(t) THEN FnEmit
    ELSE IF IsIter(t) THEN FnIter
    ELSE IF IsReIter(t) THEN FnReIter
    ELSE FnIllegal

\* ParamKindOf with the re-iterator case setting the iterator kind.
ParamKindOfReIterAsIter(t) ==
    IF t = ContextT THEN FnContext
    ELSE IF t = EventTimeType THEN FnEventTime
    ELSE IF t = TypeT THEN FnType
    ELSE IF IsContainer(t) \/ IsConcrete(t) \/ IsUniversal(t) THEN FnValue
    ELSE IF IsEmit(t) THEN FnEmit
    ELSE IF IsIter(t) THEN FnIter
    ELSE IF IsReIter(t) THEN FnIter
    ELSE FnIllegal

\* The switch over a parameter type; FnIllegal stands for its default case.
ParamKindOf(t) ==
    IF t = ContextT THEN FnContext
    ELSE IF t = EventTimeType THEN FnEventTime
    ELSE IF t = TypeT THEN FnType
    ELSE IF IsContainer(t) \/ IsConcrete(t) \/ IsUniversal(t) THEN FnValue
    ELSE IF IsEmit(t) THEN FnEmit
    ELSE IF IsIter(t) THEN FnIter
    ELSE IF IsReIter(t) THEN FnReIter
    ELSE FnIllegal

\* The switch over a result type; RetIllegal stands for its default case.
RetKindOf(t) ==
    IF t = ErrorT THEN RetError
    ELSE IF t = EventTimeType THEN RetEventTime
    ELSE IF IsContainer(t) \/ IsConcrete(t) \/ IsUniversal(t) THEN RetValue
    ELSE RetIllegal

\* BadParamError without the function's name.
BadParamErrorNoName(name, i, t) ==
    Errorf("bad paramenter type: %v", <<TypeArg(t)>>)

BadParamError(name, i, t) ==
    Errorf("bad paramenter type for %s: %v", <<StringArg(name), TypeArg(t)>>)

BadReturnError(name, i, t) ==
    Errorf("bad return type for %s: %v", <<StringArg(name), TypeArg(t)>>)

NotFuncError(fn) ==
    Errorf("not a function or method: %v", <<KindArg(fn.kind)>>)

\* for i := 0; i < fntype.NumIn(); i++ { ... }
RECURSIVE ParamLoop(_, _, _, _)
ParamLoop(name, fntype, i, param) ==
    IF i >= Len(fntype.in) THEN [list |-> param, err |-> NilErr]
    ELSE LET t == fntype.in[i + 1]
             kind == ParamKindOf(t)
         IN  IF kind = FnIllegal
             THEN [list |-> <<>>, err |-> BadParamError(name, i, t)]
             ELSE ParamLoop(name, fntype, i + 1,
                            Append(param, [Kind |-> kind, T |-> t]))

\* RetLoop keeping one result of each kind only.
RECURSIVE RetLoopOnePerKind(_, _, _, _)
RetLoopOnePerKind(name, fntype, i, ret) ==
    IF i >= Len(fntype.out) THEN [list |-> ret, err |-> NilErr]
    ELSE LET t == fntype.out[i + 1]
             kind == RetKindOf(t)
         IN  IF kind = RetIllegal
             THEN [list |-> <<>>, err |-> BadReturnError(name, i, t)]
             ELSE IF \E j \in 1..Len(ret) : ret[j].Kind = kind
             THEN RetLoopOnePerKind(name, fntype, i + 1, ret)
             ELSE RetLoopOnePerKind(name, fntype, i + 1,
                                    Append(ret, [Kind |-> kind, T |-> t]))

\* for i := 0; i < fntype.NumOut(); i++ { ... }
RECURSIVE RetLoop(_, _, _, _)
RetLoop(name, fntype, i, ret) ==
    IF i >= Len(fntype.out) THEN [list |-> ret, err |-> NilErr]
    ELSE LET t == fntype.out[i + 1]
             kind == RetKindOf(t)
         IN  IF kind = RetIllegal
             THEN [list |-> <<>>, err |-> BadReturnError(name, i, t)]
             ELSE RetLoop(name, fntype, i + 1,
                          Append(ret, [Kind |-> kind, T |-> t]))

\* New going on after a bad result type instead of returning the error.
NewKeepsBadReturn(fn) ==
    IF fn.kind # "Func" THEN [u |-> NilFn, err |-> NotFuncError(fn)]
    ELSE LET name == fn.name
             p == ParamLoop(name, fn, 0, <<>>)
             r == RetLoop(name, fn, 0, <<>>)
         IN  IF p.err # NilErr THEN [u |-> NilFn, err |-> p.err]
             ELSE [u |-> [Name |-> name, Fn |-> fn,
                          Param |-> p.list, Ret |-> r.list],
                   err |-> NilErr]

\* New(dofn): the pair (*UserFn, error) it returns.
New(fn) ==
    IF fn.kind # "Func" THEN [u |-> NilFn, err |-> NotFuncError(fn)]
    ELSE LET name == fn.name
             p == ParamLoop(name, fn, 0, <<>>)
             r == RetLoop(name, fn, 0, <<>>)
         IN  IF p.err # NilErr THEN [u |-> NilFn, err |-> p.err]
             ELSE IF r.err # NilErr THEN [u |-> NilFn, err |-> r.err]
             ELSE [u |-> [Name |-> name, Fn |-> fn,
                          Param |-> p.list, Ret |-> r.list],
                   err |-> NilErr]

---------------------------------------------------------------------------
(* The queries. *)

\* FirstOfKind without the return inside the loop: the last match wins.
RECURSIVE LastOfKind(_, _, _)
LastOfKind(list, kind, i) ==
    LET rest == IF i + 1 >= Len(list) THEN [pos |-> -1, exists |-> FALSE]
                ELSE LastOfKind(list, kind, i + 1)
    IN  IF i >= Len(list) THEN [pos |-> -1, exists |-> FALSE]
        ELSE IF rest.exists THEN rest
        ELSE IF list[i + 1].Kind = kind THEN [pos |-> i, exists |-> TRUE]
        ELSE rest

\* for i, p := range list { if p.Kind == kind { return i, true } }
\* return -1, false
RECURSIVE FirstOfKind(_, _, _)
FirstOfKind(list, kind, i) ==
    IF i >= Len(list) THEN [pos |-> -1, exists |-> FALSE]
    ELSE IF list[i + 1].Kind = kind THEN [pos |-> i, exists |-> TRUE]
    ELSE FirstOfKind(list, kind, i + 1)

Context(d) == FirstOfKind(d.Param, FnContext, 0)
Type(d) == FirstOfKind(d.Param, FnType, 0)
EventTime(d) == FirstOfKind(d.Param, FnEventTime, 0)
Error(d) == FirstOfKind(d.Ret, RetError, 0)
OutEventTime(d) == FirstOfKind(d.Ret, RetEventTime, 0)

\* MaskLoop comparing the kind with the mask instead of intersecting them.
RECURSIVE MaskLoopEqual(_, _, _, _)
MaskLoopEqual(list, mask, i, ret) ==
    IF i >= Len(list) THEN ret
    ELSE IF list[i + 1].Kind = mask
         THEN MaskLoopEqual(list, mask, i + 1, Append(ret, i))
         ELSE MaskLoopEqual(list, mask, i + 1, ret)

\* for i, p := range list { if (p.Kind & mask) != 0 { ret = append(ret, i) } }
RECURSIVE MaskLoop(_, _, _, _)
MaskLoop(list, mask, i, ret) ==
    IF i >= Len(list) THEN ret
    ELSE IF BitAnd(list[i + 1].Kind, mask) # 0
         THEN MaskLoop(list, mask, i + 1, Append(ret, i))
         ELSE MaskLoop(list, mask, i + 1, ret)

Params(d, mask) == MaskLoop(d.Param, mask, 0, <<>>)
Returns(d, mask) == MaskLoop(d.Ret, mask, 0, <<>>)

\* fmt.Sprintf("%+v", *u): the fields by name, each kind by its String().
String(d) ==
    [Name |-> d.Name,
     Fn |-> d.Fn,
     Param |-> [j \in 1..Len(d.Param) |->
                  [Kind |-> FnParamKindString(d.Param[j].Kind), T |-> d.Param[j].T]],
     Ret |-> [j \in 1..Len(d.Ret) |->
                  [Kind |-> ReturnKindString(d.Ret[j].Kind), T |-> d.Ret[j].T]]]

\* SubLoop walking the list and keeping the elements whose index was asked
\* for: ascending order, each element once.
RECURSIVE SubLoopAscending(_, _, _, _)
SubLoopAscending(list, indices, j, ret) ==
    IF j >= Len(list) THEN ret
    ELSE IF \E n \in 1..Len(indices) : indices[n] = j
         THEN SubLoopAscending(list, indices, j + 1, Append(ret, list[j + 1]))
         ELSE SubLoopAscending(list, indices, j + 1, ret)

\* for _, index := range indices { ret = append(ret, list[index]) }
RECURSIVE SubLoop(_, _, _, _)
SubLoop(list, indices, j, ret) ==
    IF j >= Len(indices) THEN ret
    ELSE SubLoop(list, indices, j + 1, Append(ret, list[indices[j + 1] + 1]))

SubParams(list, indices) == SubLoop(list, indices, 0, <<>>)
SubReturns(list, indices) == SubLoop(list, indices, 0, <<>>)

---------------------------------------------------------------------------
(* Inputs. *)

\* The function name runtime.FuncForPC reports.
FuncNames == {"main.f", "main.g"}

\* One callback type of each shape.
EmitT == Func(<<IntT>>, <<>>)
IterT == Func(<<Ptr(IntT)>>, <<BoolT>>)
ReIterT == Func(<<>>, <<IterT>>)

ParamTypes ==
    {ContextT, EventTimeType, TypeT, IntT, SliceT, UniversalT,
     EmitT, IterT, ReIterT, ChanT}
ReturnTypes == {ErrorT, EventTimeType, IntT, UniversalT, ChanT}

\* The values that are no function: nil, an int, a struct.
NonFuncs ==
    {[kind |-> k, name |-> "", in |-> <<>>, out |-> <<>>] :
        k \in {"Invalid", "Int", "Struct"}}

\* The functions over the given types with at most n parameters and results
\* taken together.
FuncsUpTo(PT, RT, n) ==
    UNION {{[kind |-> "Func", name |-> nm, in |-> i, out |-> o] :
                nm \in FuncNames,
                i \in [1..m -> PT],
                o \in SeqsUpTo(RT, n - m)} : m \in 0..n}

\* The signatures the queries are exercised on: one name, every kind a
\* finder looks for and the value kind.
QueryParamTypes == {ContextT, EventTimeType, TypeT, IntT}
QueryReturnTypes == {ErrorT, EventTimeType, IntT}
QueryFuncs ==
    {f \in FuncsUpTo(QueryParamTypes, QueryReturnTypes, MaxSlots) :
        f.name = "main.f"}

\* The masks handed to Params and to Returns.
ParamMasks ==
    {0, FnContext, FnValue, FnValue + FnEmit + FnIter + FnReIter,
     FnContext + FnEventTime + FnType, 127}
ReturnMasks == {0, RetEventTime, RetValue, RetError, RetValue + RetError, 7}

\* The in-range index lists handed to SubParams and SubReturns.
IndexLists(list) == SeqsUpTo(0..(Len(list) - 1), MaxIdx)

\* The callback types of SpecShape.
ShapeArgs == {EventTimeType, IntT, Ptr(IntT), Ptr(ChanT), ChanT}
ShapeResults ==
    {IterT, Func(<<Ptr(IntT), Ptr(IntT)>>, <<BoolT>>), EmitT,
     Func(<<Ptr(ChanT)>>, <<BoolT>>), Func(<<IntT>>, <<BoolT>>)}
ShapeOuts ==
    {<<>>, <<BoolT>>, <<IntT>>, <<BoolT, BoolT>>} \cup {<<f>> : f \in ShapeResults}
ShapeTypes ==
    {Func(i, o) : i \in SeqsUpTo(ShapeArgs, MaxShapeIn), o \in ShapeOuts}

NoRes == [op |-> "none", args |-> <<>>, val |-> <<>>]

---------------------------------------------------------------------------
(* SpecNew: New alone, over every signature and every oracle. *)

InitNew ==
    /\ dofn \in NonFuncs \cup FuncsUpTo(ParamTypes, ReturnTypes, MaxSlots)
    /\ oracle \in SUBSET Canonical
    /\ pc = "start"
    /\ u = NilFn
    /\ err = NilErr
    /\ res = NoRes

CallNew ==
    /\ pc = "start"
    /\ pc' = "done"
    /\ u' = New(dofn).u
    /\ err' = New(dofn).err
    /\ UNCHANGED <<dofn, oracle, res>>

NextNew == CallNew

SpecNew == InitNew /\ [][NextNew]_vars

---------------------------------------------------------------------------
(* SpecShape: New on a function whose only parameter is a callback type. *)

InitShape ==
    /\ dofn \in {[kind |-> "Func", name |-> "main.f", in |-> <<t>>, out |-> <<>>] :
                    t \in ShapeTypes}
    /\ oracle \in SUBSET Canonical
    /\ pc = "start"
    /\ u = NilFn
    /\ err = NilErr
    /\ res = NoRes

SpecShape == InitShape /\ [][NextNew]_vars

---------------------------------------------------------------------------
(* Spec: New once, then the queries in any order.  The queries never      *)
(* consult the oracle, which is the strict one here.                      *)

Init ==
    /\ dofn \in NonFuncs \cup QueryFuncs
    /\ oracle = {}
    /\ pc = "start"
    /\ u = NilFn
    /\ err = NilErr
    /\ res = NoRes

Query(op, args, val) ==
    /\ pc = "done"
    /\ u # NilFn
    /\ res' = [op |-> op, args |-> args, val |-> val]
    /\ UNCHANGED <<dofn, oracle, pc, u, err>>

CallContext == Query("Context", <<>>, Context(u))
CallType == Query("Type", <<>>, Type(u))
CallEventTime == Query("EventTime", <<>>, EventTime(u))
CallError == Query("Error", <<>>, Error(u))
CallOutEventTime == Query("OutEventTime", <<>>, OutEventTime(u))
CallParams == \E mask \in ParamMasks : Query("Params", mask, Params(u, mask))
CallReturns == \E mask \in ReturnMasks : Query("Returns", mask, Returns(u, mask))
CallString == Query("String", <<>>, String(u))
\* SubParams building its result in the list's own storage: the first
\* elements of u.Param are overwritten with the selection.
CallSubParamsInPlace ==
    /\ pc = "done"
    /\ u # NilFn
    /\ \E indices \in IndexLists(u.Param) :
          LET sel == SubParams(u.Param, indices)
          IN  /\ res' = [op |-> "SubParams", args |-> indices, val |-> sel]
              /\ u' = [u EXCEPT !.Param =
                         [j \in 1..Len(u.Param) |->
                            IF j <= Len(sel) THEN sel[j] ELSE u.Param[j]]]
    /\ UNCHANGED <<dofn, oracle, pc, err>>

CallSubParams ==
    /\ u # NilFn
    /\ \E indices \in IndexLists(u.Param) :
          Query("SubParams", indices, SubParams(u.Param, indices))
CallSubReturns ==
    /\ u # NilFn
    /\ \E indices \in IndexLists(u.Ret) :
          Query("SubReturns", indices, SubReturns(u.Ret, indices))

Next ==
    \/ CallNew
    \/ CallContext
    \/ CallType
    \/ CallEventTime
    \/ CallError
    \/ CallOutEventTime
    \/ CallParams
    \/ CallReturns
    \/ CallString
    \/ CallSubParams
    \/ CallSubReturns

Spec == Init /\ [][Next]_vars


---------------------------------------------------------------------------
(* The claims. *)

Built == pc = "done" /\ u # NilFn
Failed == pc = "done" /\ err # NilErr

\* The parameter tests, numbered in the order the claim gives them, and the
\* kind each stands for.
ParamTestPasses(n, t) ==
    CASE n = 1 -> t = ContextT
      [] n = 2 -> t = EventTimeType
      [] n = 3 -> t = TypeT
      [] n = 4 -> IsElem(t)
      [] n = 5 -> IsEmit(t)
      [] n = 6 -> IsIter(t)
      [] n = 7 -> IsReIter(t)
ParamTestKind == <<FnContext, FnEventTime, FnType, FnValue, FnEmit, FnIter, FnReIter>>

\* The result tests, in the claim's order, and their kinds.
RetTestPasses(n, t) ==
    CASE n = 1 -> t = ErrorT
      [] n = 2 -> t = EventTimeType
      [] n = 3 -> IsElem(t)
RetTestKind == <<RetError, RetEventTime, RetValue>>

PassesNoParamTest(t) == \A n \in 1..7 : ~ParamTestPasses(n, t)
PassesNoRetTest(t) == \A n \in 1..3 : ~RetTestPasses(n, t)

\* C1: when New succeeds, Param has one entry per declared parameter, in
\* declaration order, each with the parameter's type and the kind of the
\* first test, in the fixed precedence order, that the type passes.
C1_ParamKinds ==
    Built =>
        /\ Len(u.Param) = Len(dofn.in)
        /\ \A i \in 1..Len(dofn.in) :
              /\ u.Param[i].T = dofn.in[i]
              /\ \E n \in 1..7 :
                    /\ ParamTestPasses(n, dofn.in[i])
                    /\ \A m \in 1..(n - 1) : ~ParamTestPasses(m, dofn.in[i])
                    /\ u.Param[i].Kind = ParamTestKind[n]

\* A function of three parameters was classified; one of them passes two
\* tests (the event time, which the oracle accepts too) and another is a
\* callback.
C1_Witness ==
    /\ Built
    /\ Len(u.Param) = 3
    /\ \E i, j \in 1..3 :
          /\ ParamTestPasses(2, u.Param[i].T)
          /\ ParamTestPasses(4, u.Param[i].T)
          /\ u.Param[j].Kind \in {FnEmit, FnIter, FnReIter}

\* C2: when New succeeds, Ret has one entry per declared result, in
\* declaration order, each with the result's type and the kind Error,
\* otherwise EventTime, otherwise Value; several Value results are each kept
\* at their own index.
C2_RetKinds ==
    Built =>
        /\ Len(u.Ret) = Len(dofn.out)
        /\ \A j \in 1..Len(dofn.out) :
              /\ u.Ret[j].T = dofn.out[j]
              /\ \E n \in 1..3 :
                    /\ RetTestPasses(n, dofn.out[j])
                    /\ \A m \in 1..(n - 1) : ~RetTestPasses(m, dofn.out[j])
                    /\ u.Ret[j].Kind = RetTestKind[n]

\* f() (int, int, error) was classified [Value, Value, Error].
C2_Witness ==
    /\ Built
    /\ dofn.out = <<IntT, IntT, ErrorT>>
    /\ [j \in 1..3 |-> u.Ret[j].Kind] = <<RetValue, RetValue, RetError>>

\* C3: New returns either a UserFn and no error, every kind of it non-zero,
\* or no UserFn and an error; the error exactly when the input is no
\* function, or a parameter passes none of the seven tests, or a result
\* passes none of the three.
C3_AllOrNothing ==
    pc = "done" =>
        /\ (u = NilFn) # (err = NilErr)
        /\ u # NilFn =>
              /\ \A i \in 1..Len(u.Param) : u.Param[i].Kind # FnIllegal
              /\ \A j \in 1..Len(u.Ret) : u.Ret[j].Kind # RetIllegal
        /\ err # NilErr <=>
              \/ dofn.kind # "Func"
              \/ \E i \in 1..Len(dofn.in) : PassesNoParamTest(dofn.in[i])
              \/ \E j \in 1..Len(dofn.out) : PassesNoRetTest(dofn.out[j])

\* New was rejected for the second result of a function whose parameters
\* and first result are all supported: nothing of it is returned.
C3_Witness ==
    /\ Failed
    /\ u = NilFn
    /\ dofn.kind = "Func"
    /\ Len(dofn.in) = 1
    /\ Len(dofn.out) = 2
    /\ ~PassesNoParamTest(dofn.in[1])
    /\ ~PassesNoRetTest(dofn.out[1])
    /\ PassesNoRetTest(dofn.out[2])

\* The 0-based index of the first unsupported parameter, of the first
\* unsupported result.
BadParams(fn) == {i \in 0..(Len(fn.in) - 1) : PassesNoParamTest(fn.in[i + 1])}
BadRets(fn) == {j \in 0..(Len(fn.out) - 1) : PassesNoRetTest(fn.out[j + 1])}
Least(S) == CHOOSE x \in S : \A y \in S : x <= y

CarriesString(e, s) ==
    \E k \in 1..Len(e.args) : e.args[k].tag = "string" /\ e.args[k].s = s
CarriesType(e, t) ==
    \E k \in 1..Len(e.args) : e.args[k].tag = "type" /\ e.args[k].t = t
CarriesInt(e, n) ==
    \E k \in 1..Len(e.args) : e.args[k].tag = "int" /\ e.args[k].n = n

InMask(kind, mask) == (mask \div kind) % 2 = 1

\* val is exactly the indices of list whose kind is in mask, ascending.
Filtered(list, mask, val) ==
    /\ \A j \in 1..Len(val) :
          /\ val[j] \in 0..(Len(list) - 1)
          /\ InMask(list[val[j] + 1].Kind, mask)
    /\ \A j \in 1..(Len(val) - 1) : val[j] < val[j + 1]
    /\ \A i \in 0..(Len(list) - 1) :
          InMask(list[i + 1].Kind, mask) => \E j \in 1..Len(val) : val[j] = i
    /\ mask = 0 => val = <<>>

\* C5: Params(m) is exactly the indices i with Param[i].Kind & m # 0, each
\* once and strictly ascending, and Returns(m) the same over Ret; the zero
\* mask gives the empty sequence and an OR of kinds the union of their
\* indices.
C5_MaskFiltering ==
    /\ res.op = "Params" => Filtered(u.Param, res.args, res.val)
    /\ res.op = "Returns" => Filtered(u.Ret, res.args, res.val)

\* Params was asked for an OR of three kinds and returned some of the
\* parameters, of two different kinds, and not all.
C5_Witness ==
    /\ res.op = "Params"
    /\ res.args = FnContext + FnEventTime + FnType
    /\ Len(res.val) = 2
    /\ Len(u.Param) = 3
    /\ u.Param[res.val[1] + 1].Kind # u.Param[res.val[2] + 1].Kind

\* val is (i, true) for the least index i of list with the kind, (-1, false)
\* when there is none.
Found(list, kind, val) ==
    LET S == {i \in 0..(Len(list) - 1) : list[i + 1].Kind = kind}
    IN  /\ val.exists <=> S # {}
        /\ val.exists => val.pos = Least(S)
        /\ ~val.exists => val.pos = -1

\* C6: Context, Type, EventTime (over Param), Error and OutEventTime (over
\* Ret) return (i, true) for the smallest index of the searched kind, also
\* when several slots have it, and (-1, false) exactly when none has.
C6_Finders ==
    /\ res.op = "Context" => Found(u.Param, FnContext, res.val)
    /\ res.op = "Type" => Found(u.Param, FnType, res.val)
    /\ res.op = "EventTime" => Found(u.Param, FnEventTime, res.val)
    /\ res.op = "Error" => Found(u.Ret, RetError, res.val)
    /\ res.op = "OutEventTime" => Found(u.Ret, RetEventTime, res.val)

\* Error() on results (int, error, error) returned (1, true).
C6_Witness ==
    /\ res.op = "Error"
    /\ Len(u.Ret) = 3
    /\ u.Ret[1].Kind = RetValue
    /\ u.Ret[2].Kind = RetError
    /\ u.Ret[3].Kind = RetError
    /\ res.val = [pos |-> 1, exists |-> TRUE]

\* val[j] = list[indices[j]] for every j.
Selected(list, indices, val) ==
    /\ Len(val) = Len(indices)
    /\ \A j \in 1..Len(indices) : val[j] = list[indices[j] + 1]

\* C7: SubParams(list, idx...) has the length of idx and list[idx[j]] as its
\* j-th element: the order of the indices given, repeated indices repeated;
\* SubReturns likewise.
C7_Selection ==
    /\ res.op = "SubParams" => Selected(u.Param, res.args, res.val)
    /\ res.op = "SubReturns" => Selected(u.Ret, res.args, res.val)

\* SubParams(list, 2, 0) on three parameters whose first and last differ.
C7_Witness ==
    /\ res.op = "SubParams"
    /\ res.args = <<2, 0>>
    /\ Len(u.Param) = 3
    /\ u.Param[1] # u.Param[3]
    /\ res.val = <<u.Param[3], u.Param[1]>>

\* The three callback shapes as the claim words them.
OneElemNoReturn(t) ==
    t.k = "func" /\ Len(t.in) = 1 /\ Len(t.out) = 0 /\ IsElem(t.in[1])
OnePointerBoolReturn(t) ==
    /\ t.k = "func"
    /\ Len(t.in) = 1
    /\ t.in[1].k = "ptr"
    /\ IsElem(t.in[1].in[1])
    /\ t.out = <<BoolT>>
NoParamIterReturn(t) ==
    t.k = "func" /\ Len(t.in) = 0 /\ Len(t.out) = 1 /\ IsIter(t.out[1])

\* C8: a parameter that is a callable of one element-typed parameter and no
\* result is classified Emit, one of one pointer (to an element type)
\* parameter and a boolean result Iter, one of no parameter that returns an
\* iterator ReIter; and no type has more than one of the three shapes.
C8_ShapesApart ==
    (pc = "done" /\ dofn.kind = "Func" /\ Len(dofn.in) = 1) =>
        LET t == dofn.in[1]
        IN  /\ OneElemNoReturn(t) => u # NilFn /\ u.Param[1].Kind = FnEmit
            /\ OnePointerBoolReturn(t) => u # NilFn /\ u.Param[1].Kind = FnIter
            /\ NoParamIterReturn(t) => u # NilFn /\ u.Param[1].Kind = FnReIter
            /\ ~(IsEmit(t) /\ IsIter(t))
            /\ ~(IsEmit(t) /\ IsReIter(t))
            /\ ~(IsIter(t) /\ IsReIter(t))

\* func() func(*int, *int) bool was classified ReIter.
C8_Witness ==
    /\ Built
    /\ dofn.in = <<Func(<<>>, <<Func(<<Ptr(IntT), Ptr(IntT)>>, <<BoolT>>)>>)>>
    /\ u.Param[1].Kind = FnReIter

\* What query op returns on descriptor d.
Answer(op, args, d) ==
    CASE op = "Context" -> Context(d)
      [] op = "Type" -> Type(d)
      [] op = "EventTime" -> EventTime(d)
      [] op = "Error" -> Error(d)
      [] op = "OutEventTime" -> OutEventTime(d)
      [] op = "Params" -> Params(d, args)
      [] op = "Returns" -> Returns(d, args)
      [] op = "String" -> String(d)
      [] op = "SubParams" -> SubParams(d.Param, args)
      [] op = "SubReturns" -> SubReturns(d.Ret, args)

\* C10: no query changes the UserFn: after any sequence of queries its Name,
\* Fn, Param and Ret are those New produced, and each query returns what it
\* returns on the UserFn as New produced it.
C10_Immutable ==
    [][Built =>
          LET built == New(dofn).u
          IN  /\ u' = u
              /\ u' = built
              /\ res'.op # "none" => res'.val = Answer(res'.op, res'.args, built)]_vars

\* SubReturns with a repeated index ran on a UserFn of two results, which is
\* still the one New produced.
C10_Witness ==
    /\ Built
    /\ res.op = "SubReturns"
    /\ res.args = <<1, 1>>
    /\ Len(u.Ret) = 2
    /\ u = New(dofn).u

=============================================================================
